---- MODULE Spec2Model ----
(***************************************************************************)
(* A model of EdgarLogsProcessor (src/edgar_logs_processor.py): the        *)
(* per-file log aggregation, the per-year log ingestion loop, the          *)
(* quarterly master-index download loop, the join-key derivation on both   *)
(* sides, the merge, and the pipeline driver.                              *)
(*                                                                         *)
(* Text is modelled as a sequence of one-character strings, so that        *)
(* split / replace / startswith / str(int) are computed as Python computes *)
(* them.  A missing value (pandas NaN) of a column is recorded in the      *)
(* row's "na" set of column names.                                         *)
(***************************************************************************)
EXTENDS Integers, Sequences, FiniteSets, TLC

VARIABLES
    pc,                 \* position of the operation under study
    \* ---- join-key derivation (both sides) ----
    cik_in,             \* filer id of the log row (integer)
    accession_in,       \* accession text of the log row
    filename_in,        \* 'Filename' field of the index row
    log_acc_path,       \* acc_path derived in merge_logs_and_index
    index_acc_path,     \* acc_path derived in run_master_index_download
    \* ---- _process_log_file on one extracted member ----
    ip_config,          \* what target_ip_list_path points at
    target_ip_prefixes, \* self.target_ip_prefixes
    raw_file,           \* the extracted member: [kind, rows]
    csv_exists,         \* whether the extracted member is still on disk
    processed,          \* rows of the processed file written (<<>>: none written)
    \* ---- run_log_processing ----
    log_year_i,         \* position of the year loop in self.log_years
    log_zip_urls,       \* archive links found on the current year's page
    archive_i,          \* position of the archive loop in log_zip_urls
    disk,               \* files under data_base_dir: [kind, year, archive, member]
    fetch_log,          \* <<year, archive position>> of every archive fetch made
    visited_years,      \* years whose loop body was entered
    listed,             \* per year position: the archive list resolved, or Unresolved
    \* ---- run_master_index_download ----
    served,             \* per (year, quarter): the master.idx the server holds
    idx_year_i,         \* position of the year loop in self.index_years
    quarter_i,          \* position of the quarter loop in the four quarters
    retries,            \* the local counter of the retry loop
    attempts,           \* fetches made for the current quarter
    fetch_fails,        \* fetches of the current quarter that failed
    sleeps,             \* time.sleep(2) calls made for the current quarter
    last_attempt,       \* what the latest loop iteration ran into
    index_file,         \* file_path of the current quarter: absent, whole or partial
    all_index_dfs,      \* the accumulated per-quarter tables
    attempted,          \* (year, quarter) positions whose retry loop was entered
    good_quarters,      \* (year, quarter) positions whose table was accumulated
    exhausted,          \* (year, quarter) positions whose every fetch failed
    index_result,       \* the table run_master_index_download returned
    \* ---- run_pipeline and merge_logs_and_index ----
    processed_files,    \* per year position: the processed files in its directory
    master_index_df,    \* what run_master_index_download returned to run_pipeline
    stages,             \* the stages started, in order
    final_logs,         \* what merge_logs_and_index returned
    pickle_saved        \* whether the final dataset was written

keyVars == <<cik_in, accession_in, filename_in, log_acc_path, index_acc_path>>
aggVars == <<ip_config, target_ip_prefixes, raw_file, csv_exists, processed>>
logVars == <<log_year_i, log_zip_urls, archive_i, disk, fetch_log, visited_years, listed>>
idxVars ==
    <<served, idx_year_i, quarter_i, retries, attempts, fetch_fails, sleeps,
      last_attempt, index_file, all_index_dfs, attempted, good_quarters,
      exhausted, index_result>>
pipeVars == <<processed_files, master_index_df, stages, final_logs, pickle_saved>>

vars == <<pc, keyVars, aggVars, logVars, idxVars, pipeVars>>

(***************************************************************************)
(* Text helpers                                                            *)
(***************************************************************************)

DigitChars == <<"0", "1", "2", "3", "4", "5", "6", "7", "8", "9">>

IsDigitChar(c) == \E i \in 1..Len(DigitChars) : DigitChars[i] = c

\* str(n) for an integer n >= 0: decimal digits, no leading zeros
RECURSIVE IntToStr(_)
IntToStr(n) ==
    IF n < 10 THEN <<DigitChars[n + 1]>>
    ELSE IntToStr(n \div 10) \o <<DigitChars[(n % 10) + 1]>>

\* s.replace(c, '')
RemoveChar(s, c) == SelectSeq(s, LAMBDA x : x # c)

\* index of the first occurrence of c in s, or 0
FirstIndexOf(s, c) ==
    IF \E i \in 1..Len(s) : s[i] = c
    THEN CHOOSE i \in 1..Len(s) : s[i] = c /\ \A j \in 1..(i - 1) : s[j] # c
    ELSE 0

\* index of the last occurrence of c in s, or 0
LastIndexOf(s, c) ==
    IF \E i \in 1..Len(s) : s[i] = c
    THEN CHOOSE i \in 1..Len(s) : s[i] = c /\ \A j \in (i + 1)..Len(s) : s[j] # c
    ELSE 0

\* s.split(c)[0]
SplitFirst(s, c) ==
    IF FirstIndexOf(s, c) = 0 THEN s ELSE SubSeq(s, 1, FirstIndexOf(s, c) - 1)

\* s.split(c)[-1]
SplitLast(s, c) ==
    IF LastIndexOf(s, c) = 0 THEN s ELSE SubSeq(s, LastIndexOf(s, c) + 1, Len(s))

\* s.startswith(p)
StartsWith(s, p) == Len(p) <= Len(s) /\ SubSeq(s, 1, Len(p)) = p

\* s[:-k]
DropLast(s, k) == IF Len(s) <= k THEN <<>> ELSE SubSeq(s, 1, Len(s) - k)

\* re.sub(r'\.0$', '', s)
StripDotZero(s) ==
    IF Len(s) >= 2 /\ s[Len(s) - 1] = "." /\ s[Len(s)] = "0"
    THEN SubSeq(s, 1, Len(s) - 2)
    ELSE s

EdgarData == <<"e", "d", "g", "a", "r", "/", "d", "a", "t", "a", "/">>

(***************************************************************************)
(* Join-key derivation                                                     *)
(***************************************************************************)

\* merge_logs_and_index: accession normalisation, then the f-string
LogAccPath(cik, accession) ==
    EdgarData \o IntToStr(cik) \o <<"/">> \o RemoveChar(StripDotZero(accession), "-")

\* run_master_index_download: str(Filename).split('.')[0]
IndexAccPath(filename) == SplitFirst(filename, ".")

\* ---- inputs of the join-key study ----

\* filer ids as the log holds them after astype(int)
KeyCiks == {1, 12, 305}

\* accession numbers as the daily logs print them: digit groups joined by '-'
KeyAccessions ==
    { a \o <<"-">> \o b \o <<"-">> \o c :
        a \in {<<"0", "0", "1">>, <<"0", "1", "2">>},
        b \in {<<"1", "0">>, <<"1", "1">>},
        c \in {<<"0", "7">>, <<"4", "2">>} }

\* master.idx prints edgar/data/<cik>/<accession>.txt, the accession with its
\* dashes; the dash-less spelling is the shape the log side produces
KeyFilename(cik, accession, dashed) ==
    EdgarData \o IntToStr(cik) \o <<"/">>
        \o (IF dashed THEN accession ELSE RemoveChar(accession, "-"))
        \o <<".", "t", "x", "t">>

KeyFilenames ==
    { KeyFilename(c, a, d) : c \in KeyCiks, a \in KeyAccessions, d \in BOOLEAN }

KeyInit ==
    /\ pc = "key"
    /\ cik_in \in KeyCiks
    /\ accession_in \in KeyAccessions
    /\ filename_in \in KeyFilenames
    /\ log_acc_path = <<>>
    /\ index_acc_path = <<>>

KeyIdle ==
    /\ cik_in = 0
    /\ accession_in = <<>>
    /\ filename_in = <<>>
    /\ log_acc_path = <<>>
    /\ index_acc_path = <<>>

\* run_master_index_download, line 249
KeyDeriveIndex ==
    /\ pc = "key"
    /\ index_acc_path = <<>>
    /\ index_acc_path' = IndexAccPath(filename_in)
    /\ UNCHANGED <<pc, cik_in, accession_in, filename_in, log_acc_path>>
    /\ UNCHANGED <<aggVars, logVars, idxVars, pipeVars>>

\* merge_logs_and_index, lines 292-295
KeyDeriveLog ==
    /\ pc = "key"
    /\ log_acc_path = <<>>
    /\ log_acc_path' = LogAccPath(cik_in, accession_in)
    /\ UNCHANGED <<pc, cik_in, accession_in, filename_in, index_acc_path>>
    /\ UNCHANGED <<aggVars, logVars, idxVars, pipeVars>>

(***************************************************************************)
(* IP allow-list: _load_target_ip_prefixes                                 *)
(***************************************************************************)

\* str(x).split('/')[0][:-2] of one 'netblock' cell
NetblockPrefix(netblock) == DropLast(SplitFirst(netblock, "/"), 2)

\* cfg: [path |-> given?, exists |-> file there?, readable |-> read_csv ok?,
\*       has_netblock |-> column there?, netblocks |-> the column's cells]
LoadTargetIpPrefixes(cfg) ==
    IF ~cfg.path THEN <<>>
    ELSE IF ~cfg.exists THEN <<>>
    ELSE IF ~cfg.readable THEN <<>>
    ELSE IF ~cfg.has_netblock THEN <<>>
    ELSE [i \in 1..Len(cfg.netblocks) |-> NetblockPrefix(cfg.netblocks[i])]

(***************************************************************************)
(* _process_log_file                                                       *)
(***************************************************************************)

UpperChars == <<"A", "B", "C", "D", "E", "F", "G", "H", "I", "J", "K", "L", "M",
                "N", "O", "P", "Q", "R", "S", "T", "U", "V", "W", "X", "Y", "Z">>
LowerChars == <<"a", "b", "c", "d", "e", "f", "g", "h", "i", "j", "k", "l", "m",
                "n", "o", "p", "q", "r", "s", "t", "u", "v", "w", "x", "y", "z">>

LowerChar(c) ==
    IF \E i \in 1..Len(UpperChars) : UpperChars[i] = c
    THEN LowerChars[CHOOSE i \in 1..Len(UpperChars) : UpperChars[i] = c]
    ELSE c

\* s.lower()
Lower(s) == [i \in 1..Len(s) |-> LowerChar(s[i])]

\* characters in ASCII order, for the comparison of accession texts
AsciiOrder == <<"-", ".", "/">> \o DigitChars \o UpperChars \o LowerChars

CharRank(c) == CHOOSE i \in 1..Len(AsciiOrder) : AsciiOrder[i] = c

RECURSIVE StrLess(_, _)
StrLess(a, b) ==
    IF Len(b) = 0 THEN FALSE
    ELSE IF Len(a) = 0 THEN TRUE
    ELSE IF a[1] # b[1] THEN CharRank(a[1]) < CharRank(b[1])
    ELSE StrLess(Tail(a), Tail(b))

IsNa(r, col) == col \in r.na

\* the flag test without its crawler term
RowFlagsPassIgnoringCrawler(r) ==
    /\ ~(~IsNa(r, "idx") /\ r.idx = 1)
    /\ ~(~IsNa(r, "code") /\ r.code < 300)

\* lines 80-84: ~(crawler == 1) & ~(idx == 1) & ~(code < 300); a comparison
\* with NaN is False, so a NaN cell passes its test
RowFlagsPass(r) ==
    /\ ~(~IsNa(r, "crawler") /\ r.crawler = 1)
    /\ ~(~IsNa(r, "idx") /\ r.idx = 1)
    /\ ~(~IsNa(r, "code") /\ r.code < 300)

\* line 85: dropna(subset=['cik', 'accession', 'date', 'ip'])
RowKeyCellsPresent(r) == r.na \cap {"cik", "accession", "date", "ip"} = {}

\* line 92: any(str(x).startswith(prefix) for prefix in prefixes)
TargetIpHit(r, prefixes) ==
    \E i \in 1..Len(prefixes) : StartsWith(r.ip, prefixes[i])

\* line 103: str(x).split('.')[-1].lower(); str(NaN) is 'nan'
NormExtention(r) ==
    IF IsNa(r, "extention") THEN <<"n", "a", "n">>
    ELSE Lower(SplitLast(r.extention, "."))

ExtHtm == <<"h", "t", "m">>
ExtTxt == <<"t", "x", "t">>
ExtXbrl == <<"x", "b", "r", "l">>

\* lines 105-108: the four indicator columns of one row
IsHtm(r) == IF NormExtention(r) = ExtHtm THEN 1 ELSE 0
IsTxt(r) == IF NormExtention(r) = ExtTxt THEN 1 ELSE 0
IsXbrl(r) == IF NormExtention(r) = ExtXbrl THEN 1 ELSE 0
IsOther(r) == IF NormExtention(r) \in {ExtHtm, ExtTxt, ExtXbrl} THEN 0 ELSE 1

\* sum of one indicator column
RECURSIVE SumSeq(_)
SumSeq(col) == IF col = <<>> THEN 0 ELSE Head(col) + SumSeq(Tail(col))

GroupKey(r) == <<r.date, r.cik, r.accession>>

\* order of the groups: groupby sorts by (date, cik, accession)
GroupKeyLess(a, b) ==
    \/ a[1] < b[1]
    \/ a[1] = b[1] /\ a[2] < b[2]
    \/ a[1] = b[1] /\ a[2] = b[2] /\ StrLess(a[3], b[3])

RECURSIVE SortGroupKeys(_)
SortGroupKeys(S) ==
    IF S = {} THEN <<>>
    ELSE LET m == CHOOSE k \in S : \A o \in S \ {k} : GroupKeyLess(k, o)
         IN  <<m>> \o SortGroupKeys(S \ {m})

\* line 110: the keys groupby(['date', 'cik', 'accession']) makes of the rows
GroupKeys(rows) == SortGroupKeys({GroupKey(rows[i]) : i \in 1..Len(rows)})

\* a total that forgets the catch-all column
NrTotalWithoutOther(htm, txt, xbrl, other) == htm + txt + xbrl

\* line 111: nr_total of one group, from its four sums
NrTotal(htm, txt, xbrl, other) == htm + txt + xbrl + other

\* lines 110-114: one output row per group
GroupRow(rows, k) ==
    LET members == SelectSeq(rows, LAMBDA r : GroupKey(r) = k)
        htm == SumSeq([i \in 1..Len(members) |-> IsHtm(members[i])])
        txt == SumSeq([i \in 1..Len(members) |-> IsTxt(members[i])])
        xbrl == SumSeq([i \in 1..Len(members) |-> IsXbrl(members[i])])
        other == SumSeq([i \in 1..Len(members) |-> IsOther(members[i])])
    IN  [date |-> k[1], cik |-> k[2], accession |-> k[3],
         nr_total |-> NrTotal(htm, txt, xbrl, other),
         htm |-> htm, txt |-> txt, xbrl |-> xbrl, other |-> other]

Aggregate(rows) ==
    LET keys == GroupKeys(rows)
    IN  [i \in 1..Len(keys) |-> GroupRow(rows, keys[i])]

\* lines 78-100: the rows that reach the aggregation
FilterRows(rows, prefixes) ==
    LET flagged == SelectSeq(rows, RowFlagsPass)
        present == SelectSeq(flagged, RowKeyCellsPresent)
    IN  IF present = <<>> THEN <<>>
        ELSE IF prefixes # <<>>
        THEN SelectSeq(present, LAMBDA r : TargetIpHit(r, prefixes))
        ELSE present

\* lines 75-126: the rows of the processed file _process_log_file writes for
\* the extracted member `file`; <<>> when it writes none (empty after a
\* filter, pd.errors.EmptyDataError, or any other exception)
ProcessLogFile(file, prefixes) ==
    IF file.kind # "csv" THEN <<>>
    ELSE Aggregate(FilterRows(file.rows, prefixes))

\* ---- inputs of the aggregation study ----

MaxRawRows == 2

AccA == <<"0", "0", "1", "-", "1", "0", "-", "0", "7">>
AccB == <<"0", "0", "1", "-", "1", "0", "-", "4", "2">>
IpIn == <<"1", ".", "2", ".", "3">>
IpOut == <<"9", ".", "9", ".", "9">>
DotHtm == <<".", "h", "t", "m">>
DotXml == <<".", "x", "m", "l">>
DotTxtUpper == <<".", "T", "X", "T">>
NameDotXbrl == <<"R", "2", ".", "x", "b", "r", "l">>

\* a request that passes every filter: served from cache, filer 1, day 1
BaseRow ==
    [crawler |-> 0, idx |-> 0, code |-> 304, cik |-> 1, accession |-> AccA,
     date |-> 1, ip |-> IpIn, extention |-> DotHtm, na |-> {}]

RawRowDomain ==
    { [BaseRow EXCEPT !.cik = c, !.extention = e] :
        c \in {1, 2}, e \in {DotHtm, DotXml, DotTxtUpper, NameDotXbrl} }
    \cup { [BaseRow EXCEPT !.cik = c, !.na = {"extention"}] : c \in {1, 2} }
    \cup { [BaseRow EXCEPT !.cik = c, !.extention = e, !.code = 200] :
             c \in {1, 2}, e \in {DotHtm, DotXml} }
    \cup { [BaseRow EXCEPT !.date = 2],
           [BaseRow EXCEPT !.accession = AccB],
           [BaseRow EXCEPT !.crawler = 1, !.code = 200],
           [BaseRow EXCEPT !.crawler = 1],
           [BaseRow EXCEPT !.idx = 1],
           [BaseRow EXCEPT !.ip = IpOut],
           [BaseRow EXCEPT !.code = 404, !.extention = DotXml],
           [BaseRow EXCEPT !.na = {"cik"}],
           [BaseRow EXCEPT !.na = {"accession"}],
           [BaseRow EXCEPT !.na = {"date"}],
           [BaseRow EXCEPT !.na = {"ip"}],
           [BaseRow EXCEPT !.na = {"crawler"}],
           [BaseRow EXCEPT !.na = {"code"}] }

RawFiles ==
    { [kind |-> "csv", rows |-> rows] :
        rows \in UNION { [1..n -> RawRowDomain] : n \in 0..MaxRawRows } }
    \cup { [kind |-> "empty", rows |-> <<>>], [kind |-> "malformed", rows |-> <<>>] }

NoIpList ==
    [path |-> FALSE, exists |-> FALSE, readable |-> FALSE, has_netblock |-> FALSE,
     netblocks |-> <<>>]

IpConfigs ==
    { NoIpList,
      [NoIpList EXCEPT !.path = TRUE],
      [NoIpList EXCEPT !.path = TRUE, !.exists = TRUE],
      [NoIpList EXCEPT !.path = TRUE, !.exists = TRUE, !.readable = TRUE],
      [path |-> TRUE, exists |-> TRUE, readable |-> TRUE, has_netblock |-> TRUE,
       netblocks |-> << <<"1", ".", "2", ".", "0", "/", "2", "4">>,
                        <<"7", ".", "7", ".", "0", "/", "2", "4">> >>] }

AggInit ==
    /\ pc = "agg"
    /\ ip_config \in IpConfigs
    /\ target_ip_prefixes = LoadTargetIpPrefixes(ip_config)
    /\ raw_file \in RawFiles
    /\ csv_exists = TRUE
    /\ processed = <<>>

AggIdle ==
    /\ ip_config = NoIpList
    /\ target_ip_prefixes = <<>>
    /\ raw_file = [kind |-> "empty", rows |-> <<>>]
    /\ csv_exists = FALSE
    /\ processed = <<>>

\* _process_log_file(csv_path, year_dir): writes the processed file when the
\* aggregation has rows; the finally clause removes the extracted member
AggProcessLogFile ==
    /\ pc = "agg"
    /\ pc' = "agg_done"
    /\ processed' = ProcessLogFile(raw_file, target_ip_prefixes)
    /\ csv_exists' = FALSE
    /\ UNCHANGED <<ip_config, target_ip_prefixes, raw_file>>
    /\ UNCHANGED <<keyVars, logVars, idxVars, pipeVars>>

(***************************************************************************)
(* run_log_processing                                                      *)
(***************************************************************************)

start_year_logs == 2011

NumLogYears == 2

\* self.log_years = list(range(start_year_logs, end_year_logs + 1))
log_years == [i \in 1..NumLogYears |-> start_year_logs + i - 1]

Unresolved == <<"unresolved">>

\* _download_file: True with the file written; False with nothing written
\* (the request failed before open) or with the bytes written so far left on
\* disk (the stream broke inside iter_content)
DownloadOutcomes == {"ok", "fail_before_write", "fail_partial"}

DownloadReturns(outcome) == outcome = "ok"

DownloadLeavesFile(outcome) == outcome \in {"ok", "fail_partial"}

ZipFile(year, archive) ==
    [kind |-> "zip", year |-> year, archive |-> archive, member |-> 0]
CsvFile(year, archive, m) ==
    [kind |-> "csv", year |-> year, archive |-> archive, member |-> m]
ProcessedFile(year, archive, m) ==
    [kind |-> "processed", year |-> year, archive |-> archive, member |-> m]

\* lines 167-170 for the members from position m on: extract, then
\* _process_log_file; an exception of extract ends the loop.  The result is
\* the disk when the with-block is left.
RECURSIVE ExtractAndProcess(_, _, _, _, _, _)
ExtractAndProcess(d, year, archive, members, m, prefixes) ==
    IF m > Len(members) THEN d
    ELSE IF members[m].extract = "fail_clean" THEN d
    ELSE IF members[m].extract = "fail_partial"
    THEN d \cup {CsvFile(year, archive, m)}
    ELSE LET out == ProcessLogFile(members[m].file, prefixes)
             written == IF out = <<>> THEN {} ELSE {ProcessedFile(year, archive, m)}
         IN  \* the member is extracted, processed and removed (finally, line 125)
             ExtractAndProcess((d \cup written) \ {CsvFile(year, archive, m)},
                               year, archive, members, m + 1, prefixes)

\* lines 155-177: the body of the archive loop for one archive, given what the
\* fetch did and what the archive holds
ArchiveBody(d, year, archive, download, zip, prefixes) ==
    IF ~DownloadReturns(download)
    THEN \* line 159: continue, before the try/finally
         IF DownloadLeavesFile(download) THEN d \cup {ZipFile(year, archive)} ELSE d
    ELSE IF zip.bad THEN d \ {ZipFile(year, archive)}
    ELSE IF zip.members = <<>> THEN d \ {ZipFile(year, archive)}
    ELSE ExtractAndProcess(d, year, archive, zip.members, 1, prefixes)
            \ {ZipFile(year, archive)}

\* the loops ended by an archive or a year that failed
LogsAdvanceStopsOnError(y, a, n, ok) ==
    IF ~ok THEN [pc |-> "logs_end", y |-> y, a |-> 0]
    ELSE IF a < n THEN [pc |-> "logs_archive", y |-> y, a |-> a + 1]
    ELSE IF y < NumLogYears THEN [pc |-> "logs_year", y |-> y + 1, a |-> 0]
    ELSE [pc |-> "logs_end", y |-> y, a |-> 0]

\* where the loops go after the archive at position a of n in year position y:
\* the next archive, the next year, or the end; `ok` is whether the archive
\* was fetched and handled without an error
LogsAdvance(y, a, n, ok) ==
    IF a < n THEN [pc |-> "logs_archive", y |-> y, a |-> a + 1]
    ELSE IF y < NumLogYears THEN [pc |-> "logs_year", y |-> y + 1, a |-> 0]
    ELSE [pc |-> "logs_end", y |-> y, a |-> 0]

\* ---- inputs of the ingestion study ----

ArchiveLists ==
    { <<>>, <<"log0101.zip">>, <<"log0101.zip", "log0102.zip">> }

GoodRawFile == [kind |-> "csv", rows |-> <<BaseRow>>]
CrawlerRawFile == [kind |-> "csv", rows |-> <<[BaseRow EXCEPT !.crawler = 1]>>]
MalformedRawFile == [kind |-> "malformed", rows |-> <<>>]

Member(extract, file) == [extract |-> extract, file |-> file]

ZipShapes ==
    { [bad |-> TRUE, members |-> <<>>],
      [bad |-> FALSE, members |-> <<>>],
      [bad |-> FALSE, members |-> <<Member("ok", GoodRawFile)>>],
      [bad |-> FALSE, members |-> <<Member("ok", CrawlerRawFile)>>],
      [bad |-> FALSE, members |-> <<Member("ok", MalformedRawFile)>>],
      [bad |-> FALSE, members |-> <<Member("fail_partial", GoodRawFile)>>],
      [bad |-> FALSE, members |-> <<Member("ok", GoodRawFile),
                                   Member("fail_clean", GoodRawFile)>>] }

\* whether the archive body ran into an error (fetch, bad archive, extraction)
ArchiveOk(download, zip) ==
    /\ DownloadReturns(download)
    /\ ~zip.bad
    /\ \A m \in 1..Len(zip.members) : zip.members[m].extract = "ok"

LogsInit ==
    /\ pc = "logs_year"
    /\ log_year_i = 1
    /\ log_zip_urls = <<>>
    /\ archive_i = 0
    /\ disk = {}
    /\ fetch_log = <<>>
    /\ visited_years = {}
    /\ listed = [y \in 1..NumLogYears |-> Unresolved]

LogsIdle ==
    /\ log_year_i = 0
    /\ log_zip_urls = <<>>
    /\ archive_i = 0
    /\ disk = {}
    /\ fetch_log = <<>>
    /\ visited_years = {}
    /\ listed = <<>>

\* lines 130-140: the year's index page cannot be fetched
LogsYearPageFails ==
    /\ pc = "logs_year"
    /\ visited_years' = visited_years \cup {log_years[log_year_i]}
    /\ LET nxt == LogsAdvance(log_year_i, 0, 0, FALSE)
       IN  pc' = nxt.pc /\ log_year_i' = nxt.y /\ archive_i' = nxt.a
    /\ UNCHANGED <<log_zip_urls, disk, fetch_log, listed>>
    /\ UNCHANGED <<keyVars, aggVars, idxVars, pipeVars>>

\* lines 130-152: the page is fetched and its archive links collected
LogsYearPage ==
    /\ pc = "logs_year"
    /\ \E urls \in ArchiveLists :
        /\ visited_years' = visited_years \cup {log_years[log_year_i]}
        /\ listed' = [listed EXCEPT ![log_year_i] = urls]
        /\ log_zip_urls' = urls
        /\ LET nxt == LogsAdvance(log_year_i, 0, Len(urls), TRUE)
           IN  pc' = nxt.pc /\ log_year_i' = nxt.y /\ archive_i' = nxt.a
    /\ UNCHANGED <<disk, fetch_log>>
    /\ UNCHANGED <<keyVars, aggVars, idxVars, pipeVars>>

\* lines 154-177: one archive of the year
LogsArchive ==
    /\ pc = "logs_archive"
    /\ \E download \in DownloadOutcomes, zip \in ZipShapes :
        /\ fetch_log' = Append(fetch_log, <<log_year_i, archive_i>>)
        /\ disk' = ArchiveBody(disk, log_years[log_year_i], log_zip_urls[archive_i],
                               download, zip, target_ip_prefixes)
        /\ LET nxt == LogsAdvance(log_year_i, archive_i, Len(log_zip_urls),
                                  ArchiveOk(download, zip))
           IN  pc' = nxt.pc /\ log_year_i' = nxt.y /\ archive_i' = nxt.a
    /\ UNCHANGED <<log_zip_urls, visited_years, listed>>
    /\ UNCHANGED <<keyVars, aggVars, idxVars, pipeVars>>

\* line 178: the loops are over and run_log_processing returns
LogsReturn ==
    /\ pc = "logs_end"
    /\ pc' = "logs_done"
    /\ UNCHANGED logVars
    /\ UNCHANGED <<keyVars, aggVars, idxVars, pipeVars>>


(***************************************************************************)
(* run_master_index_download                                               *)
(***************************************************************************)

\* the years of the index range the model runs over
index_years == <<2010, 2011>>

Quarters == <<"QTR1", "QTR2", "QTR3", "QTR4">>

max_retries == 3

NanText == <<"n", "a", "n">>

\* str.isdigit()
IsDigitText(s) == s # <<>> /\ \A i \in 1..Len(s) : IsDigitChar(s[i])

\* lines 196-223 on a fetched file f = [header, rows]:
\*   header "standard": the signature line is found, the table starts there;
\*   header "at_default": it is not found, and the line the default skiprows=9
\*     lands on carries the four expected names once stripped;
\*   header "absent": neither, so the expected columns are missing.
\* The result is "missing_columns", "fault" (an exception was raised) or the
\* table that is accumulated.
ParseIndexFile(f) ==
    IF f.header = "unreadable" THEN [kind |-> "fault", rows |-> <<>>]
    ELSE IF f.header = "absent" THEN [kind |-> "missing_columns", rows |-> <<>>]
    ELSE IF f.rows = <<>> THEN [kind |-> "table", rows |-> <<>>]
    ELSE IF "CIK" \in f.rows[1].na
    THEN \* NaN is truthy and has no isdigit: AttributeError
         [kind |-> "fault", rows |-> <<>>]
    ELSE IF IsDigitText(f.rows[1].cik) THEN [kind |-> "table", rows |-> f.rows]
    ELSE [kind |-> "table", rows |-> Tail(f.rows)]

RECURSIVE Concat(_)
Concat(dfs) == IF dfs = <<>> THEN <<>> ELSE Head(dfs) \o Concat(Tail(dfs))

\* lines 249-250: acc_path from Filename, then the three kept columns
IndexEntry(row) ==
    [form |-> row.form, date_filed |-> row.date_filed,
     acc_path |-> IF "Filename" \in row.na THEN NanText
                  ELSE IndexAccPath(row.filename),
     na |-> row.na \cap {"Form Type", "Date Filed"}]

\* the positions of the rows that no earlier row equals
FirstOccurrences(rows) ==
    {i \in 1..Len(rows) : \A j \in 1..(i - 1) : rows[j] # rows[i]}

\* drop_duplicates(): the first of equal rows is kept, in order
DropDuplicates(rows) ==
    LET keep == FirstOccurrences(rows)
    IN  [k \in 1..Cardinality(keep) |->
            rows[CHOOSE i \in keep : Cardinality({j \in keep : j <= i}) = k]]

\* lines 242-257: what is returned for the accumulated tables; <<>> is the
\* empty DataFrame
FinalizeIndex(dfs) ==
    IF dfs = <<>> THEN <<>>
    ELSE LET all == Concat(dfs)
         IN  DropDuplicates([i \in 1..Len(all) |-> IndexEntry(all[i])])

\* the loops ended by a quarter that used up its retries
IndexAdvanceStopsOnGiveUp(y, q, gave_up) ==
    IF gave_up THEN [pc |-> "idx_end", y |-> y, q |-> q]
    ELSE IF q < Len(Quarters) THEN [pc |-> "idx_quarter", y |-> y, q |-> q + 1]
    ELSE IF y < Len(index_years) THEN [pc |-> "idx_quarter", y |-> y + 1, q |-> 1]
    ELSE [pc |-> "idx_end", y |-> y, q |-> q]

\* where the loops go once the retry loop of quarter position q in year
\* position y is left; `gave_up` is whether it was left with the retries used up
IndexAdvance(y, q, gave_up) ==
    IF q < Len(Quarters) THEN [pc |-> "idx_quarter", y |-> y, q |-> q + 1]
    ELSE IF y < Len(index_years) THEN [pc |-> "idx_quarter", y |-> y + 1, q |-> 1]
    ELSE [pc |-> "idx_end", y |-> y, q |-> q]

\* a loop condition that lets one more iteration in
RetryLoopRunsOnceMore(r) == r <= max_retries

\* line 193: the condition of the retry loop
RetryLoopRuns(r) == r < max_retries

\* ---- inputs of the index study ----

Form10K == <<"1", "0", "-", "K">>
Form8K == <<"8", "-", "K">>

IndexRow(cik, form, date_filed, filename) ==
    [cik |-> cik, form |-> form, date_filed |-> date_filed, filename |-> filename,
     na |-> {}]

\* the line of dashes under the header: one cell, the other columns NaN
SeparatorRow ==
    [cik |-> <<"-", "-", "-">>, form |-> <<>>, date_filed |-> "", filename |-> <<>>,
     na |-> {"Form Type", "Date Filed", "Filename"}]

RowA == IndexRow(<<"1">>, Form10K, "2011-01-03", KeyFilename(1, AccA, TRUE))
RowB == IndexRow(<<"1">>, Form10K, "2011-01-03", KeyFilename(1, AccA, FALSE))
RowC == IndexRow(<<"2">>, Form8K, "2011-02-07", KeyFilename(2, AccA, FALSE))
RowNaCik == [RowC EXCEPT !.na = {"CIK"}]

\* master.idx as published: header, dashes, rows
FileStandard == [header |-> "standard", rows |-> <<SeparatorRow, RowA, RowB>>]
\* rows right under the header; RowB is listed again
FileNoDashes == [header |-> "standard", rows |-> <<RowC, RowB>>]
FileAtDefault == [header |-> "at_default", rows |-> <<SeparatorRow, RowC>>]
FileHeaderOnly == [header |-> "standard", rows |-> <<>>]
FileNoHeader == [header |-> "absent", rows |-> <<>>]
FileNaCik == [header |-> "standard", rows |-> <<RowNaCik>>]
FileUnreadable == [header |-> "unreadable", rows |-> <<>>]

Slots == (1..Len(index_years)) \X (1..Len(Quarters))

\* what the server holds for each (year, quarter)
ServedWorlds ==
    { [s \in Slots |->
        IF s[2] = 1 THEN FileStandard
        ELSE IF s[2] = 2 THEN FileNoHeader
        ELSE IF s[2] = 3 THEN FileNoDashes
        ELSE FileAtDefault],
      [s \in Slots |->
        IF s = <<1, 1>> THEN FileNaCik
        ELSE IF s[2] = 4 THEN FileHeaderOnly
        ELSE IF s[1] = 1 THEN FileNoDashes
        ELSE FileStandard] }

IdxInit ==
    /\ pc = "idx_quarter"
    /\ served \in ServedWorlds
    /\ idx_year_i = 1
    /\ quarter_i = 1
    /\ retries = 0
    /\ attempts = 0
    /\ fetch_fails = 0
    /\ sleeps = 0
    /\ last_attempt = "none"
    /\ index_file = "absent"
    /\ all_index_dfs = <<>>
    /\ attempted = {}
    /\ good_quarters = {}
    /\ exhausted = {}
    /\ index_result = <<>>

IdxIdle ==
    /\ served = <<>>
    /\ idx_year_i = 0
    /\ quarter_i = 0
    /\ retries = 0
    /\ attempts = 0
    /\ fetch_fails = 0
    /\ sleeps = 0
    /\ last_attempt = "none"
    /\ index_file = "absent"
    /\ all_index_dfs = <<>>
    /\ attempted = {}
    /\ good_quarters = {}
    /\ exhausted = {}
    /\ index_result = <<>>

Slot == <<idx_year_i, quarter_i>>

\* the retry loop of the current quarter is left and the for loops advance;
\* the counters keep what the quarter used until the next one is entered
IdxLeaveQuarter(gave_up) ==
    LET nxt == IndexAdvance(idx_year_i, quarter_i, gave_up)
    IN  /\ pc' = nxt.pc
        /\ idx_year_i' = nxt.y
        /\ quarter_i' = nxt.q

\* lines 188-192: url and file_path of the quarter, retries = 0
IdxEnterQuarter ==
    /\ pc = "idx_quarter"
    /\ pc' = "idx_loop"
    /\ retries' = 0
    /\ attempts' = 0
    /\ fetch_fails' = 0
    /\ sleeps' = 0
    /\ last_attempt' = "none"
    /\ index_file' = "absent"
    /\ attempted' = attempted \cup {Slot}
    /\ UNCHANGED <<served, idx_year_i, quarter_i, all_index_dfs, good_quarters,
                   exhausted, index_result>>
    /\ UNCHANGED <<keyVars, aggVars, logVars, pipeVars>>

\* lines 194, 233-240: one iteration of the retry loop whose fetch fails
IdxFetchFails ==
    /\ pc = "idx_loop"
    /\ RetryLoopRuns(retries)
    /\ \E download \in DownloadOutcomes \ {"ok"} :
        index_file' = IF DownloadLeavesFile(download) THEN "partial" ELSE index_file
    /\ last_attempt' = "fetch_failed"
    /\ retries' = retries + 1
    /\ attempts' = attempts + 1
    /\ fetch_fails' = fetch_fails + 1
    /\ IF retries + 1 < max_retries
       THEN /\ pc' = "idx_sleep"
            /\ UNCHANGED <<idx_year_i, quarter_i, exhausted>>
       ELSE \* line 240: break
            /\ exhausted' = IF fetch_fails + 1 = attempts + 1
                            THEN exhausted \cup {Slot} ELSE exhausted
            /\ IdxLeaveQuarter(TRUE)
    /\ UNCHANGED <<served, sleeps, all_index_dfs, attempted, good_quarters,
                   index_result>>
    /\ UNCHANGED <<keyVars, aggVars, logVars, pipeVars>>

\* lines 194-223: the fetch succeeds and the file parses: the table is
\* accumulated and the loop left (line 223)
IdxParsed ==
    /\ pc = "idx_loop"
    /\ RetryLoopRuns(retries)
    /\ ParseIndexFile(served[Slot]).kind = "table"
    /\ all_index_dfs' = Append(all_index_dfs, ParseIndexFile(served[Slot]).rows)
    /\ good_quarters' = good_quarters \cup {Slot}
    /\ last_attempt' = "parsed"
    /\ attempts' = attempts + 1
    /\ index_file' = "whole"
    /\ IdxLeaveQuarter(FALSE)
    /\ UNCHANGED <<served, retries, fetch_fails, sleeps, attempted, exhausted,
                   index_result>>
    /\ UNCHANGED <<keyVars, aggVars, logVars, pipeVars>>

\* lines 213-215: the expected columns are missing: break, the file stays
IdxMissingColumns ==
    /\ pc = "idx_loop"
    /\ RetryLoopRuns(retries)
    /\ ParseIndexFile(served[Slot]).kind = "missing_columns"
    /\ last_attempt' = "missing_columns"
    /\ attempts' = attempts + 1
    /\ index_file' = "whole"
    /\ IdxLeaveQuarter(FALSE)
    /\ UNCHANGED <<served, retries, fetch_fails, sleeps, all_index_dfs, attempted,
                   good_quarters, exhausted, index_result>>
    /\ UNCHANGED <<keyVars, aggVars, logVars, pipeVars>>

\* lines 224-232: reading or checking the fetched file raises (always for a
\* file that is unreadable or starts with a NaN CIK, possibly for any file:
\* the read itself can fail); the file is removed, after the sleep when
\* there is one, and the loop condition decides what follows
IdxFault ==
    /\ pc = "idx_loop"
    /\ RetryLoopRuns(retries)
    /\ last_attempt' = "fault"
    /\ retries' = retries + 1
    /\ attempts' = attempts + 1
    /\ index_file' = IF retries + 1 < max_retries THEN "whole" ELSE "absent"
    /\ pc' = IF retries + 1 < max_retries THEN "idx_sleep" ELSE "idx_loop"
    /\ UNCHANGED <<served, idx_year_i, quarter_i, fetch_fails, sleeps,
                   all_index_dfs, attempted, good_quarters, exhausted, index_result>>
    /\ UNCHANGED <<keyVars, aggVars, logVars, pipeVars>>

\* lines 229, 237: time.sleep(2), then back to the loop condition; after a
\* fault the fetched file is removed once the sleep is over (line 232)
IdxSleep ==
    /\ pc = "idx_sleep"
    /\ pc' = "idx_loop"
    /\ sleeps' = sleeps + 1
    /\ index_file' = IF last_attempt = "fault" THEN "absent" ELSE index_file
    /\ UNCHANGED <<served, idx_year_i, quarter_i, retries, attempts, fetch_fails,
                   last_attempt, all_index_dfs, attempted,
                   good_quarters, exhausted, index_result>>
    /\ UNCHANGED <<keyVars, aggVars, logVars, pipeVars>>

\* line 193: the loop condition is false: the retries are used up
IdxLoopExit ==
    /\ pc = "idx_loop"
    /\ ~RetryLoopRuns(retries)
    /\ IdxLeaveQuarter(TRUE)
    /\ UNCHANGED <<served, retries, attempts, fetch_fails, sleeps, last_attempt,
                   index_file, all_index_dfs, attempted, good_quarters, exhausted,
                   index_result>>
    /\ UNCHANGED <<keyVars, aggVars, logVars, pipeVars>>

\* lines 242-257: the loops are over; concatenate, derive, project, dedup
IdxReturn ==
    /\ pc = "idx_end"
    /\ pc' = "idx_done"
    /\ index_result' = FinalizeIndex(all_index_dfs)
    /\ UNCHANGED <<served, idx_year_i, quarter_i, retries, attempts, fetch_fails,
                   sleeps, last_attempt, index_file, all_index_dfs, attempted,
                   good_quarters, exhausted>>
    /\ UNCHANGED <<keyVars, aggVars, logVars, pipeVars>>

(***************************************************************************)
(* merge_logs_and_index                                                    *)
(***************************************************************************)

RECURSIVE StripLeadingZeros(_)
StripLeadingZeros(s) ==
    IF Len(s) > 1 /\ s[1] = "0" THEN StripLeadingZeros(Tail(s)) ELSE s

\* line 276, pd.read_csv of a processed file: the accession column is read
\* as integers when every cell is made of digits, as text otherwise;
\* line 292 then prints it back with astype(str)
ReadProcessedCsv(file) ==
    IF file # <<>> /\ \A i \in 1..Len(file) : IsDigitText(file[i].accession)
    THEN [i \in 1..Len(file) |->
            [file[i] EXCEPT !.accession = StripLeadingZeros(@)]]
    ELSE file

\* lines 273-285: the rows of one year's processed files, concatenated
LoadYear(files) == Concat([i \in 1..Len(files) |-> ReadProcessedCsv(files[i])])

\* lines 292-295
WithAccPath(row) ==
    [date |-> row.date, cik |-> row.cik, accession |-> StripDotZero(row.accession),
     nr_total |-> row.nr_total, htm |-> row.htm, txt |-> row.txt,
     xbrl |-> row.xbrl, other |-> row.other,
     acc_path |-> LogAccPath(row.cik, row.accession)]

\* one row of the merge result: the log row and, when an entry is given, its
\* columns; without one, 'Form Type' and 'Date Filed' are NaN
Joined(row, entry, matched) ==
    [date |-> row.date, cik |-> row.cik, accession |-> row.accession,
     nr_total |-> row.nr_total, htm |-> row.htm, txt |-> row.txt,
     xbrl |-> row.xbrl, other |-> row.other,
     form |-> IF matched THEN entry.form ELSE <<>>,
     filing_date |-> IF matched THEN entry.date_filed ELSE "",
     na |-> IF matched THEN entry.na ELSE {"Form Type", "Date Filed"}]

\* line 297: merge(master_index_df, on='acc_path', how='left') for one row
LeftJoinRow(row, index) ==
    LET hits == SelectSeq(index, LAMBDA e : e.acc_path = row.acc_path)
    IN  IF hits = <<>> THEN <<Joined(row, row, FALSE)>>
        ELSE [i \in 1..Len(hits) |-> Joined(row, hits[i], TRUE)]

LeftJoin(rows, index) ==
    Concat([i \in 1..Len(rows) |-> LeftJoinRow(rows[i], index)])

\* a left join that keeps its unmatched rows
DropNothing(rows) == rows

\* line 305: dropna(subset=['Form Type', 'Date Filed'])
DropUnresolved(rows) ==
    SelectSeq(rows, LAMBDA r : r.na \cap {"Form Type", "Date Filed"} = {})

\* line 316: the order of sort_values(['cik', 'date', 'form'])
FinalLess(a, b) ==
    \/ a.cik < b.cik
    \/ a.cik = b.cik /\ a.date < b.date
    \/ a.cik = b.cik /\ a.date = b.date /\ StrLess(a.form, b.form)

\* x goes after the rows that are not greater than it: the sort is stable
RECURSIVE InsertSorted(_, _)
InsertSorted(sorted, x) ==
    IF sorted = <<>> THEN <<x>>
    ELSE IF FinalLess(x, Head(sorted)) THEN <<x>> \o sorted
    ELSE <<Head(sorted)>> \o InsertSorted(Tail(sorted), x)

RECURSIVE SortFinal(_)
SortFinal(rows) ==
    IF rows = <<>> THEN <<>>
    ELSE InsertSorted(SortFinal(SubSeq(rows, 1, Len(rows) - 1)), rows[Len(rows)])

\* lines 266-298: the per-year merge results, years without files or
\* without rows skipped
RECURSIVE MergeYears(_, _, _)
MergeYears(files_by_year, y, index) ==
    IF y > Len(files_by_year) THEN <<>>
    ELSE LET loaded == LoadYear(files_by_year[y])
             keyed == [i \in 1..Len(loaded) |-> WithAccPath(loaded[i])]
         IN  LeftJoin(keyed, index) \o MergeYears(files_by_year, y + 1, index)

\* lines 259-332: the dataset merge_logs_and_index returns; <<>> is the empty
\* DataFrame
MergeLogsAndIndex(files_by_year, index) ==
    IF index = <<>> THEN <<>>
    ELSE SortFinal(DropUnresolved(MergeYears(files_by_year, 1, index)))

(***************************************************************************)
(* run_pipeline                                                            *)
(***************************************************************************)

\* a driver that never checks the index
PipelineNeverHalts(index) == FALSE

\* line 340: master_index_df.empty
PipelineHalts(index) == index = <<>>

\* ---- inputs of the pipeline study ----

\* one day of requests: two for filing AccA of filer 1, one for filer 2
RawDay1 ==
    [kind |-> "csv",
     rows |-> <<BaseRow, [BaseRow EXCEPT !.extention = DotXml],
                [BaseRow EXCEPT !.cik = 2]>>]
\* the next day: filing AccB of filer 1, which no published filename spells
RawDay2 ==
    [kind |-> "csv",
     rows |-> <<[BaseRow EXCEPT !.date = 2, !.accession = AccB],
                [BaseRow EXCEPT !.date = 2, !.extention = DotTxtUpper]>>]

ProcessedDay1 == ProcessLogFile(RawDay1, <<>>)
ProcessedDay2 == ProcessLogFile(RawDay2, <<>>)

\* what run_log_processing can leave in a year directory
YearFileChoices ==
    { <<>>, <<ProcessedDay1>>, <<ProcessedDay2>>, <<ProcessedDay1, ProcessedDay2>> }

\* the filing of RowB listed again as an amendment, and a row of filing AccB
\* whose form cell is empty
RowBAmended ==
    IndexRow(<<"1">>, <<"1", "0", "-", "K", "/", "A">>, "2011-03-01",
             KeyFilename(1, AccA, FALSE))
RowNoForm ==
    [IndexRow(<<"1">>, <<>>, "2011-01-05", KeyFilename(1, AccB, FALSE))
        EXCEPT !.na = {"Form Type"}]

FileRefiled == [header |-> "standard", rows |-> <<SeparatorRow, RowBAmended, RowNoForm>>]

Parsed(f) == ParseIndexFile(f).rows

\* what run_master_index_download can have accumulated
IndexDfChoices ==
    { <<>>,
      <<Parsed(FileHeaderOnly)>>,
      <<Parsed(FileStandard)>>,
      <<Parsed(FileStandard), Parsed(FileNoDashes)>>,
      <<Parsed(FileNoDashes), Parsed(FileRefiled)>>,
      <<Parsed(FileStandard), Parsed(FileRefiled), Parsed(FileAtDefault)>> }

PipeInit ==
    /\ pc = "pipe_start"
    /\ processed_files = [y \in 1..NumLogYears |-> <<>>]
    /\ master_index_df = <<>>
    /\ stages = <<>>
    /\ final_logs = <<>>
    /\ pickle_saved = FALSE

PipeIdle ==
    /\ processed_files = <<>>
    /\ master_index_df = <<>>
    /\ stages = <<>>
    /\ final_logs = <<>>
    /\ pickle_saved = FALSE

\* line 337: run_log_processing(), whatever it leaves in the year directories
PipeLogProcessing ==
    /\ pc = "pipe_start"
    /\ pc' = "pipe_logs_done"
    /\ stages' = Append(stages, "logs")
    /\ processed_files' \in [1..NumLogYears -> YearFileChoices]
    /\ UNCHANGED <<master_index_df, final_logs, pickle_saved>>
    /\ UNCHANGED <<keyVars, aggVars, logVars, idxVars>>

\* line 339: run_master_index_download()
PipeMasterIndex ==
    /\ pc = "pipe_logs_done"
    /\ pc' = "pipe_index_done"
    /\ stages' = Append(stages, "index")
    /\ \E dfs \in IndexDfChoices : master_index_df' = FinalizeIndex(dfs)
    /\ UNCHANGED <<processed_files, final_logs, pickle_saved>>
    /\ UNCHANGED <<keyVars, aggVars, logVars, idxVars>>

\* lines 340-342: the index is empty: return
PipeHalt ==
    /\ pc = "pipe_index_done"
    /\ PipelineHalts(master_index_df)
    /\ pc' = "pipe_done"
    /\ UNCHANGED pipeVars
    /\ UNCHANGED <<keyVars, aggVars, logVars, idxVars>>

\* lines 344-346: merge_logs_and_index(master_index_df); the final dataset is
\* written (lines 325-329, which can fail) when the merge has rows
PipeMerge ==
    /\ pc = "pipe_index_done"
    /\ ~PipelineHalts(master_index_df)
    /\ pc' = "pipe_done"
    /\ stages' = Append(stages, "merge")
    /\ final_logs' = MergeLogsAndIndex(processed_files, master_index_df)
    /\ IF MergeLogsAndIndex(processed_files, master_index_df) = <<>>
       THEN pickle_saved' = FALSE
       ELSE pickle_saved' \in BOOLEAN
    /\ UNCHANGED <<processed_files, master_index_df>>
    /\ UNCHANGED <<keyVars, aggVars, logVars, idxVars>>

(***************************************************************************)
(* Specifications, one per operation under study                           *)
(***************************************************************************)

\* the two join-key derivations on one (log row, index row) pair
InitKey == KeyInit /\ AggIdle /\ LogsIdle /\ IdxIdle /\ PipeIdle
NextKey == KeyDeriveIndex \/ KeyDeriveLog
SpecKey == InitKey /\ [][NextKey]_vars

\* _process_log_file on one extracted member
InitAgg == AggInit /\ KeyIdle /\ LogsIdle /\ IdxIdle /\ PipeIdle
NextAgg == AggProcessLogFile
SpecAgg == InitAgg /\ [][NextAgg]_vars

\* run_log_processing
InitLogs == LogsInit /\ KeyIdle /\ AggIdle /\ IdxIdle /\ PipeIdle
NextLogs == LogsYearPageFails \/ LogsYearPage \/ LogsArchive \/ LogsReturn
SpecLogs == InitLogs /\ [][NextLogs]_vars

\* run_master_index_download; the loop is sequential code, so a step that
\* can be taken is taken
InitIndex == IdxInit /\ KeyIdle /\ AggIdle /\ LogsIdle /\ PipeIdle
NextIndex ==
    \/ IdxEnterQuarter
    \/ IdxFetchFails
    \/ IdxParsed
    \/ IdxMissingColumns
    \/ IdxFault
    \/ IdxSleep
    \/ IdxLoopExit
    \/ IdxReturn
SpecIndex == InitIndex /\ [][NextIndex]_vars
\* lines 191-240: the steps of one quarter's retry loop
RetryLoopStep ==
    \/ IdxEnterQuarter
    \/ IdxFetchFails
    \/ IdxParsed
    \/ IdxMissingColumns
    \/ IdxFault
    \/ IdxSleep
    \/ IdxLoopExit
\* the method runs on one thread that nothing preempts for ever: a step of
\* the retry loop that can be taken is eventually taken
SpecIndexFair == SpecIndex /\ WF_vars(RetryLoopStep)

\* run_pipeline
Init == PipeInit /\ KeyIdle /\ AggIdle /\ LogsIdle /\ IdxIdle
Next == PipeLogProcessing \/ PipeMasterIndex \/ PipeHalt \/ PipeMerge
Spec == Init /\ [][Next]_vars

(***************************************************************************)
(* C1                                                                      *)
(***************************************************************************)

DigitsOf(s) == SelectSeq(s, IsDigitChar)

\* the (filer id, accession digits) pair a log row references
KeyRefOfLog(cik, accession) == <<IntToStr(cik), DigitsOf(accession)>>

\* the (filer id, accession digits) pair an index filename references:
\* edgar/data/<filer id>/<accession>.<suffix>
KeyRefOfFilename(f) ==
    LET rest == SubSeq(f, Len(EdgarData) + 1, Len(f))
        slash == FirstIndexOf(rest, "/")
    IN  <<SubSeq(rest, 1, slash - 1),
          DigitsOf(SplitFirst(SubSeq(rest, slash + 1, Len(rest)), "."))>>

KeySameRef == KeyRefOfLog(cik_in, accession_in) = KeyRefOfFilename(filename_in)

\* C1: whenever a dashed accession of the log and a dotted filename of the
\* index reference the same (filer id, accession digits) pair, the join key
\* derived on the log side equals, as a string, the one derived on the
\* index side.
C1_KeysAgree ==
    (/\ pc = "key"
     /\ log_acc_path # <<>>
     /\ index_acc_path # <<>>
     /\ FirstIndexOf(accession_in, "-") # 0
     /\ FirstIndexOf(filename_in, ".") # 0
     /\ KeySameRef)
        => log_acc_path = index_acc_path

\* the dash-less spelling of the filename is the only one the log key meets
C1_DashlessAgree ==
    (/\ pc = "key"
     /\ log_acc_path # <<>>
     /\ index_acc_path # <<>>
     /\ KeySameRef
     /\ FirstIndexOf(filename_in, "-") = 0)
        => log_acc_path = index_acc_path

(***************************************************************************)
(* C2                                                                      *)
(***************************************************************************)

\* two requests, crawler=0, idx=0, code=200, one key, extensions htm and xml
IsScenario1(file) ==
    /\ file.kind = "csv"
    /\ Len(file.rows) = 2
    /\ \A i \in 1..2 :
        /\ file.rows[i].na = {}
        /\ file.rows[i].crawler = 0
        /\ file.rows[i].idx = 0
        /\ file.rows[i].code = 200
    /\ GroupKey(file.rows[1]) = GroupKey(file.rows[2])
    /\ {file.rows[1].extention, file.rows[2].extention} = {DotHtm, DotXml}

\* C2: aggregating the two requests of scenario 1 yields exactly one row,
\* with total 2, htm 1, other 1, txt 0 and xbrl 0.
C2_Scenario1OneRow ==
    (pc = "agg_done" /\ IsScenario1(raw_file))
        => /\ Len(processed) = 1
           /\ processed[1].nr_total = 2
           /\ processed[1].htm = 1
           /\ processed[1].other = 1
           /\ processed[1].txt = 0
           /\ processed[1].xbrl = 0

(***************************************************************************)
(* C3                                                                      *)
(***************************************************************************)

\* C3: every row _process_log_file writes has nr_total = htm + txt + xbrl +
\* other, and no two written rows share their (date, cik, accession) key.
C3_TotalAndUniqueKeys ==
    pc = "agg_done"
        => /\ \A i \in 1..Len(processed) :
                processed[i].nr_total
                    = processed[i].htm + processed[i].txt
                        + processed[i].xbrl + processed[i].other
           /\ \A i, j \in 1..Len(processed) :
                i # j => GroupKey(processed[i]) # GroupKey(processed[j])

\* two groups written, one of them counting an 'other' request
C3_Witness ==
    /\ pc = "agg_done"
    /\ Len(processed) = 2
    /\ \E i \in 1..2 : processed[i].other = 1 /\ processed[i].nr_total = 1

(***************************************************************************)
(* C4                                                                      *)
(***************************************************************************)

\* the conditions the claim lists for a request to count
Eligible(r, prefixes) ==
    /\ IsNa(r, "crawler") \/ r.crawler # 1
    /\ IsNa(r, "idx") \/ r.idx # 1
    /\ IsNa(r, "code") \/ r.code >= 300
    /\ \A col \in {"cik", "accession", "date", "ip"} : ~IsNa(r, col)
    /\ prefixes # <<>>
        => \E i \in 1..Len(prefixes) :
             Len(prefixes[i]) <= Len(r.ip)
             /\ \A j \in 1..Len(prefixes[i]) : r.ip[j] = prefixes[i][j]

RemoveAt(s, i) == SubSeq(s, 1, i - 1) \o SubSeq(s, i + 1, Len(s))

\* C4: a request counts in the output only if it is eligible: every written
\* total is covered by the eligible requests of its key, and taking a
\* request that is not eligible out of the file leaves the output as it is.
C4_OnlyEligibleRowsCount ==
    pc = "agg_done"
        => /\ \A i \in 1..Len(processed) :
                processed[i].nr_total
                    <= Cardinality({ n \in 1..Len(raw_file.rows) :
                           /\ Eligible(raw_file.rows[n], target_ip_prefixes)
                           /\ GroupKey(raw_file.rows[n]) = GroupKey(processed[i]) })
           /\ \A n \in 1..Len(raw_file.rows) :
                ~Eligible(raw_file.rows[n], target_ip_prefixes)
                    => ProcessLogFile([raw_file EXCEPT !.rows = RemoveAt(@, n)],
                                      target_ip_prefixes) = processed

\* a crawler request with code 200 beside a counted request of the same key,
\* with an allow-list loaded
C4_Witness ==
    /\ pc = "agg_done"
    /\ target_ip_prefixes # <<>>
    /\ Len(processed) = 1
    /\ processed[1].nr_total = 1
    /\ \E n \in 1..Len(raw_file.rows) :
        /\ raw_file.rows[n].crawler = 1
        /\ raw_file.rows[n].code = 200
        /\ GroupKey(raw_file.rows[n]) = GroupKey(processed[1])

(***************************************************************************)
(* C5                                                                      *)
(***************************************************************************)

\* the aggregated rows merge_logs_and_index loads, with their derived key
LoadedRows ==
    LET all == Concat([y \in 1..Len(processed_files) |-> LoadYear(processed_files[y])])
    IN  [i \in 1..Len(all) |-> WithAccPath(all[i])]

MergeReturned == pc = "pipe_done" /\ stages = <<"logs", "index", "merge">>

CountOf(s, x) == Cardinality({ i \in 1..Len(s) : s[i] = x })

SameLogRow(f, r) ==
    /\ f.date = r.date /\ f.cik = r.cik /\ f.accession = r.accession
    /\ f.nr_total = r.nr_total /\ f.htm = r.htm /\ f.txt = r.txt
    /\ f.xbrl = r.xbrl /\ f.other = r.other

Resolved(e) == e.na = {}

\* C5 as stated: a loaded log row whose key is held by index entries has
\* exactly one merged row, carrying the index's form type and filing date; a
\* row whose key no entry holds has none; so the returned dataset has one row
\* per (date, filer, accession).
C5_OneMergedRowPerLogRow ==
    MergeReturned =>
        /\ \A i \in 1..Len(LoadedRows) :
            LET r == LoadedRows[i]
                mine == { n \in 1..Len(final_logs) : SameLogRow(final_logs[n], r) }
                hits == { j \in 1..Len(master_index_df) :
                            master_index_df[j].acc_path = r.acc_path }
            IN  IF hits = {} THEN mine = {}
                ELSE /\ Cardinality(mine) = 1
                     /\ \A n \in mine : \E j \in hits :
                          /\ final_logs[n].form = master_index_df[j].form
                          /\ final_logs[n].filing_date = master_index_df[j].date_filed
        /\ \A m, n \in 1..Len(final_logs) :
            m # n => <<final_logs[m].date, final_logs[m].cik, final_logs[m].accession>>
                       # <<final_logs[n].date, final_logs[n].cik, final_logs[n].accession>>

\* C5, amended: the returned dataset holds one merged row per pair of a loaded
\* log row and an index entry of its key whose form type and filing date are
\* both present, carrying that entry's form type and filing date, and holds
\* nothing else; a log row without such an entry is dropped.
C5_OneMergedRowPerResolvedEntry ==
    MergeReturned =>
        /\ \A i \in 1..Len(LoadedRows) : \A j \in 1..Len(master_index_df) :
            (/\ master_index_df[j].acc_path = LoadedRows[i].acc_path
             /\ Resolved(master_index_df[j]))
                => CountOf(final_logs, Joined(LoadedRows[i], master_index_df[j], TRUE))
                     = CountOf(LoadedRows, LoadedRows[i])
        /\ \A n \in 1..Len(final_logs) :
            /\ final_logs[n].na = {}
            /\ \E i \in 1..Len(LoadedRows) : \E j \in 1..Len(master_index_df) :
                /\ master_index_df[j].acc_path = LoadedRows[i].acc_path
                /\ final_logs[n] = Joined(LoadedRows[i], master_index_df[j], TRUE)
        /\ Len(final_logs)
             = SumSeq([i \in 1..Len(LoadedRows) |->
                 Cardinality({ j \in 1..Len(master_index_df) :
                     /\ master_index_df[j].acc_path = LoadedRows[i].acc_path
                     /\ Resolved(master_index_df[j]) })])

\* a log row with two resolved entries of its key merged twice, beside a log
\* row that no resolved entry matches and that is dropped
C5_Witness ==
    /\ MergeReturned
    /\ \E i \in 1..Len(LoadedRows) :
        /\ Cardinality({ j \in 1..Len(master_index_df) :
              /\ master_index_df[j].acc_path = LoadedRows[i].acc_path
              /\ Resolved(master_index_df[j]) }) = 2
        /\ Cardinality({ n \in 1..Len(final_logs) :
              SameLogRow(final_logs[n], LoadedRows[i]) }) = 2
    /\ \E i \in 1..Len(LoadedRows) :
        /\ \A n \in 1..Len(final_logs) : ~SameLogRow(final_logs[n], LoadedRows[i])
        /\ \E j \in 1..Len(master_index_df) :
              master_index_df[j].acc_path = LoadedRows[i].acc_path

(***************************************************************************)
(* C6                                                                      *)
(***************************************************************************)

\* the rows of a served file that list a filing: the CIK cell is a number
DataRows(f) ==
    SelectSeq(f.rows, LAMBDA r : "CIK" \notin r.na /\ IsDigitText(r.cik))

SlotBefore(a, b) == a[1] < b[1] \/ (a[1] = b[1] /\ a[2] < b[2])

\* C6: a quarter whose three fetches all fail does not stop the loops: when
\* run_master_index_download returns, every (year, quarter) of the range was
\* attempted, and the returned table holds the rows of every quarter that was
\* fetched and parsed, before or after a failing one.
C6_FailedQuarterDoesNotStopLoop ==
    pc = "idx_done"
        => /\ attempted = Slots
           /\ \A s \in good_quarters :
                \A k \in 1..Len(DataRows(served[s])) :
                    \E n \in 1..Len(index_result) :
                        index_result[n] = IndexEntry(DataRows(served[s])[k])

\* a quarter lost to three failed fetches, between two quarters whose rows
\* are in the returned table
C6_Witness ==
    /\ pc = "idx_done"
    /\ \E s \in exhausted : \E g, h \in good_quarters :
        /\ SlotBefore(g, s)
        /\ SlotBefore(s, h)
        /\ DataRows(served[g]) # <<>>
        /\ DataRows(served[h]) # <<>>
        /\ \E n \in 1..Len(index_result) :
              index_result[n] = IndexEntry(DataRows(served[h])[1])

(***************************************************************************)
(* C7                                                                      *)
(***************************************************************************)

\* C7: when run_log_processing returns, no downloaded archive and no
\* extracted member is left in a year directory; and once the retry loop of a
\* quarter is left after a failed fetch, a parse fault or missing columns, no
\* file is left at its file_path.
C7_NoTemporaryArtifactLeft ==
    /\ pc = "logs_done" => \A f \in disk : f.kind \notin {"zip", "csv"}
    /\ (/\ pc \in {"idx_quarter", "idx_end", "idx_done"}
        /\ last_attempt \in {"fetch_failed", "fault", "missing_columns"})
            => index_file = "absent"

(***************************************************************************)
(* C8                                                                      *)
(***************************************************************************)

FetchesOf(y, a) == CountOf(fetch_log, <<y, a>>)

\* C8: no failure of an archive or of a year aborts run_log_processing: no
\* archive is fetched twice, and when the run returns every configured year
\* was visited and every archive of every resolved list was fetched once.
C8_EveryYearAndArchiveVisitedOnce ==
    /\ \A n \in 1..Len(fetch_log) : FetchesOf(fetch_log[n][1], fetch_log[n][2]) = 1
    /\ pc = "logs_done"
        => /\ visited_years = { log_years[y] : y \in 1..NumLogYears }
           /\ \A y \in 1..NumLogYears :
                listed[y] # Unresolved
                    => \A a \in 1..Len(listed[y]) : FetchesOf(y, a) = 1

\* the first archive of the first year left behind by a broken fetch, the
\* second one and an archive of the last year still fetched and processed
C8_Witness ==
    /\ pc = "logs_done"
    /\ ZipFile(log_years[1], "log0101.zip") \in disk
    /\ ProcessedFile(log_years[1], "log0102.zip", 1) \in disk
    /\ ProcessedFile(log_years[NumLogYears], "log0101.zip", 1) \in disk
    /\ FetchesOf(1, 2) = 1
    /\ FetchesOf(NumLogYears, 1) = 1

(***************************************************************************)
(* C9                                                                      *)
(***************************************************************************)

LogsYieldedNothing ==
    /\ pc # "pipe_start"
    /\ \A y \in 1..Len(processed_files) : processed_files[y] = <<>>

IndexYieldedNothing ==
    /\ pc \in {"pipe_index_done", "pipe_done"}
    /\ master_index_df = <<>>

StageStarted(name) == \E n \in 1..Len(stages) : stages[n] = name

\* C9 as stated: once log ingestion or the index build has produced no data,
\* no later stage is started.
C9_HaltsAfterAnyEmptyStage ==
    /\ LogsYieldedNothing => ~StageStarted("index") /\ ~StageStarted("merge")
    /\ IndexYieldedNothing => ~StageStarted("merge") /\ ~pickle_saved

\* C9, amended: run_pipeline halts early exactly when the index build
\* returned an empty result: then the merge is never invoked and no final
\* dataset is written; the index build is started after log ingestion
\* whatever that produced, and a non-empty index is always merged.
C9_HaltsOnEmptyIndexOnly ==
    /\ IndexYieldedNothing
        => ~StageStarted("merge") /\ final_logs = <<>> /\ ~pickle_saved
    /\ pc \in {"pipe_index_done", "pipe_done"}
        => SubSeq(stages, 1, 2) = <<"logs", "index">>
    /\ pc = "pipe_done"
        => stages = IF master_index_df = <<>> THEN <<"logs", "index">>
                    ELSE <<"logs", "index", "merge">>
    /\ pickle_saved => final_logs # <<>>

\* the pipeline returned without merging: logs were processed, the index
\* came back empty
C9_Witness ==
    /\ pc = "pipe_done"
    /\ master_index_df = <<>>
    /\ stages = <<"logs", "index">>
    /\ \E y \in 1..Len(processed_files) : processed_files[y] # <<>>

(***************************************************************************)
(* C10                                                                     *)
(***************************************************************************)

\* the counters of the quarter whose retry loop is running or was just left
C10_Counters ==
    /\ attempts <= 3
    /\ fetch_fails <= attempts
    /\ sleeps <= attempts
    /\ pc = "idx_sleep" => attempts >= 1 /\ sleeps < attempts /\ retries < 3
    /\ (sleeps = attempts /\ attempts > 0) => pc = "idx_loop" /\ retries < 3
    /\ last_attempt = "missing_columns"
        => pc \in {"idx_quarter", "idx_end", "idx_done"}

\* C10: a quarter is fetched at most 3 times, failed fetches and parse faults
\* counted together; a backoff is preceded and followed by a fetch of the
\* same quarter; missing columns end the quarter at once; and every retry
\* loop that is running is eventually left, for the next quarter or for the
\* end of the range.
C10_RetriesBoundedAndLoopEnds ==
    /\ [](C10_Counters)
    /\ [](pc = "idx_loop" => <>(pc \in {"idx_quarter", "idx_end"}))

\* a quarter given up after a failed fetch, a parse fault and a failed fetch
C10_Witness ==
    /\ pc = "idx_quarter"
    /\ attempts = 3
    /\ fetch_fails = 2
    /\ sleeps = 2
    /\ last_attempt = "fetch_failed"

====
